---------------------------- MODULE Spec2Model ----------------------------
(***************************************************************************)
(* Google-maps-prospect: the usage / budget trackers and the paginated     *)
(* search that is gated by them.                                           *)
(*                                                                         *)
(* The repository holds two independent programs.  app.py is the Flask     *)
(* service: a module-level UsageTracker kept in memory and written to      *)
(* usage_log.json, consulted by search_places_paginated.  usage_tracker.py *)
(* is a stand-alone UsageTracker over two SQLite tables (monthly_usage,    *)
(* request_log).  A behaviour of this module is a run of one of the two,   *)
(* chosen by the variable program.                                         *)
(*                                                                         *)
(* Money is counted in thousandths of a currency unit (0.009 is 9), so the *)
(* Python floats become integers.  The wall clock is the number of months  *)
(* elapsed since January of StartYear.                                     *)
(***************************************************************************)
EXTENDS Integers, Sequences, FiniteSets, TLC

(* ------------------------------ bounds -------------------------------- *)

\* Month changes the wall clock makes during a run.
MaxTicks == 1

\* External calls a month's searches may issue (the provider's meter).
MaxCalls == 4

\* Entries request_log may hold.
MaxLog == 2

\* Seconds the wall clock advances while the request log is written.
MaxSeconds == 1
MaxAdders == 2

\* The clock starts in December of StartYear, so that a month change also
\* changes the year.
StartYear == 2026

FirstMonth == 11

(* --------------------------- configuration ---------------------------- *)

\* UsageTracker.__init__ arguments (both files): the limits and the flat cost
\* of a call.  A limit of 0, a cost ceiling reached before the request
\* ceiling, a request ceiling reached before the cost ceiling and a cost per
\* call that is no whole number of cents (the default is 0.009) all occur.
Cfg(r, c, k) == [max_requests_per_month |-> r, max_cost_per_month |-> c, cost_per_request |-> k]

Configs == {Cfg(0, 1000, 10), Cfg(2, 1000, 9), Cfg(3, 20, 10)}

\* GOOGLE_PLACES_API_KEY / GEOCODING_API_KEY as read from the environment:
\* whether each is a non-empty string.
KeyConfigs ==
    { [places |-> TRUE, geocoding |-> TRUE],
      [places |-> TRUE, geocoding |-> FALSE],
      [places |-> FALSE, geocoding |-> FALSE] }

VARIABLES
    program,              \* "app" | "usage_tracker": which file is running
    now,                  \* wall clock, in months
    second,               \* wall clock within the month, in seconds
    config,               \* the tracker's limits and cost per request
    meter,                \* external calls issued in the current month
    \* ---- app.py
    keys,                 \* API keys present
    requests_this_month,  \* tracker.requests_this_month
    cost_this_month,      \* tracker.cost_this_month
    usage_file,           \* content of usage_log.json
    save_error,           \* "Error saving usage" was logged since construction
    pc,                   \* position of the request handler
    search,               \* locals of search_places_paginated
    response,             \* last HTTP response of the service
    peer,                 \* the other request thread: its pc, search, response
    adders,               \* add_request calls in progress, statement by statement
    \* ---- usage_tracker.py
    monthly_usage,        \* table monthly_usage, in rowid order
    request_log,          \* table request_log, in rowid order
    db_pc,                \* position of the caller inside a tracker method
    db_local,             \* locals of the method in progress
    db_ret,               \* value returned by the last completed method
    db_peer,              \* the other caller of the tracker: its db_pc, db_local
    \* ---- history
    attempts              \* the run of recordAttempt calls of a fresh period

envVars == <<program, now, second, config, meter>>
appVars == <<keys, requests_this_month, cost_this_month, usage_file, save_error,
             pc, search, response, peer, adders>>
dbVars == <<monthly_usage, request_log, db_pc, db_local, db_ret, db_peer>>
vars == <<envVars, appVars, dbVars, attempts>>

(* ------------------------------ helpers ------------------------------- *)

\* datetime.now().strftime("%Y-%m") / (now.year, now.month)
MonthKey(t) == [year |-> StartYear + (t \div 12), month |-> (t % 12) + 1]

Max(a, b) == IF a >= b THEN a ELSE b

Min(a, b) == IF a <= b THEN a ELSE b

NoFile == [kind |-> "absent"]

Corrupt == [kind |-> "corrupt"]

\* A counter that holds no number: load_usage stores whatever the file gives
\* for "requests" and "cost", a string or null included.
NotANumber == -1

\* usage_log.json exists and cannot be opened for reading.
Unreadable == [kind |-> "unreadable"]

\* usage_log.json holds JSON that is no object (a list, a number, null).
NotObject == [kind |-> "not_object"]

NoSearch == [max_pages |-> 0, page_count |-> 0, page_token |-> FALSE, all_results |-> <<>>]

NoResponse == [status |-> 0, code |-> "none"]

NoRun == [period |-> MonthKey(0), n |-> -1]

\* No add_request call is followed statement by statement.
NoAdders == <<>>

\* A request thread that is handling nothing.
NoPeer == [pc |-> "idle", search |-> NoSearch, response |-> NoResponse]

(* ======================= app.py: UsageTracker ========================= *)

\* UsageTracker.__init__ + load_usage: the counters after construction, given
\* the file found and the month read from the clock.
app_load_usage(file, month_key) ==
    IF file.kind = "json" /\ file.month = month_key
    THEN [requests |-> file.requests, cost |-> file.cost]
    ELSE [requests |-> 0, cost |-> 0]

\* What the first construction may find on disk: no file, a file it cannot
\* read, text that is no JSON, JSON that is no object, and an object of the
\* current month whose cost is no number.
InitialFiles ==
    { NoFile, Unreadable, Corrupt, NotObject,
      [kind |-> "json", month |-> MonthKey(FirstMonth), requests |-> 0, cost |-> NotANumber] }

\* save_usage: the file after the write.  open(..., "w") may fail (the file
\* is left as it was) and json.dump may fail after the file was truncated.
app_save_usage(requests, cost, write) ==
    CASE write = "ok" -> [kind |-> "json", month |-> MonthKey(now),
                          requests |-> requests, cost |-> cost]
      [] write = "open_fails" -> usage_file
      [] OTHER -> Corrupt

WriteOutcomes == {"ok", "open_fails", "dump_fails"}

\* add_request that saves before it counts: the file lags by one call.
app_add_request_save_first(write) ==
    /\ requests_this_month' = requests_this_month + 1
    /\ cost_this_month' = cost_this_month + config.cost_per_request
    /\ usage_file' = app_save_usage(requests_this_month, cost_this_month, write)
    /\ save_error' = (save_error \/ write # "ok")

\* add_request that forgets the cost of the call.
app_add_request_no_cost(write) ==
    /\ requests_this_month' = requests_this_month + 1
    /\ cost_this_month' = cost_this_month
    /\ usage_file' = app_save_usage(requests_this_month', cost_this_month', write)
    /\ save_error' = (save_error \/ write # "ok")

\* add_request; save_usage reports a failed write with logger.error.
app_add_request(write) ==
    /\ requests_this_month' = requests_this_month + 1
    /\ cost_this_month' = cost_this_month + config.cost_per_request
    /\ usage_file' = app_save_usage(requests_this_month', cost_this_month', write)
    /\ save_error' = (save_error \/ write # "ok")

\* can_make_request that looks at the request ceiling only.
app_can_make_request_requests_only ==
    requests_this_month < config.max_requests_per_month

\* can_make_request
app_can_make_request ==
    /\ requests_this_month < config.max_requests_per_month
    /\ cost_this_month < config.max_cost_per_month

\* The comparison and the :.2f of can_make_request, the division of
\* get_usage_percentage and the :.2f of the handlers raise (TypeError,
\* ValueError) on a cost that is no number.
CounterRaises == cost_this_month = NotANumber

\* get_usage_percentage that stops at 100.
app_get_usage_percentage_capped(requests, cost) ==
    LET rn == IF config.max_requests_per_month > 0 THEN requests * 100 ELSE 0
        rd == IF config.max_requests_per_month > 0 THEN config.max_requests_per_month ELSE 1
        cn == IF config.max_cost_per_month > 0 THEN cost * 100 ELSE 0
        cd == IF config.max_cost_per_month > 0 THEN config.max_cost_per_month ELSE 1
    IN  IF rn >= 100 * rd \/ cn >= 100 * cd THEN [num |-> 100, den |-> 1]
        ELSE IF rn * cd >= cn * rd THEN [num |-> rn, den |-> rd] ELSE [num |-> cn, den |-> cd]

\* get_usage_percentage, as the exact fraction num / den of a percentage.
app_get_usage_percentage(requests, cost) ==
    LET rn == IF config.max_requests_per_month > 0 THEN requests * 100 ELSE 0
        rd == IF config.max_requests_per_month > 0 THEN config.max_requests_per_month ELSE 1
        cn == IF config.max_cost_per_month > 0 THEN cost * 100 ELSE 0
        cd == IF config.max_cost_per_month > 0 THEN config.max_cost_per_month ELSE 1
    IN  IF rn * cd >= cn * rd THEN [num |-> rn, den |-> rd] ELSE [num |-> cn, den |-> cd]

\* f"{x:.2f}" of an amount: the nearest hundredth, in thousandths.
Format2f(c) == ((c + 5) \div 10) * 10

\* f"{x:.1f}" of a percentage num / den: the nearest tenth, in tenths.
Format1f(p) == (2 * 10 * p.num + p.den) \div (2 * p.den)

(* ------------------------- history: attempts -------------------------- *)

\* attempts records the run of recordAttempt calls made in one period since
\* that period was fresh: [period, n], or NoRun once anything else has
\* touched the period's counters.
RunStart(t) == [period |-> MonthKey(t), n |-> 0]

RunStep(run, t) ==
    CASE run.n = 0 -> [period |-> MonthKey(t), n |-> 1]
      [] run.n > 0 /\ run.period = MonthKey(t) -> [run EXCEPT !.n = @ + 1]
      [] OTHER -> NoRun

(* ==================== app.py: the request handlers ==================== *)

Resp(status, code) == [status |-> status, code |-> code]

\* The success dictionary search_places_paginated returns (lines 317-327).
SearchResult(page_count, all_results) ==
    [status |-> 200, code |-> "OK",
     pages_fetched |-> page_count,
     results |-> all_results,
     requests |-> requests_this_month',
     cost |-> Format2f(cost_this_month'),
     budget_used |-> Format1f(app_get_usage_percentage(requests_this_month', cost_this_month'))]

ZeroMeter == [geocode |-> 0, places |-> 0]

Issued == meter.geocode + meter.places

\* The external calls a search in progress may still issue.
Pending(thread) ==
    CASE thread.pc = "geocode" -> 1 + thread.search.max_pages
      [] thread.pc = "page" -> thread.search.max_pages - thread.search.page_count
      [] OTHER -> 0

\* What the client may send as max_pages; api_search clamps it to 1..3.
ClientMaxPages == 0..4

\* A clamp that bounds max_pages from above only.
ClampPages_upper_only(v) == Min(v, 3)

ClampPages(v) == Max(1, Min(v, 3))

Bodies == {"ok", "missing_fields", "malformed"}

\* api_search that geocodes the city before it asks the gate: a rejected
\* search has issued one external call.
api_search_geocode_first(body, client_max_pages) ==
    /\ program = "app"
    /\ pc = "idle"
    /\ UNCHANGED <<program, now, second, config, dbVars, attempts>>
    /\ UNCHANGED <<keys, requests_this_month, cost_this_month, usage_file, save_error, peer, adders>>
    /\ IF body = "malformed"
       THEN /\ response' = Resp(500, "EXCEPTION")
            /\ UNCHANGED <<pc, search, meter>>
       ELSE IF body = "missing_fields"
       THEN /\ response' = Resp(400, "MISSING_FIELDS")
            /\ UNCHANGED <<pc, search, meter>>
       ELSE IF CounterRaises
       THEN /\ response' = Resp(400, "UNKNOWN_ERROR")
            /\ UNCHANGED <<pc, search, meter>>
       ELSE IF ~app_can_make_request
       THEN /\ response' = Resp(400, "BUDGET_EXCEEDED")
            /\ meter' = [meter EXCEPT !.geocode = @ + 1]
            /\ UNCHANGED <<pc, search>>
       ELSE IF ~keys.places
       THEN /\ response' = Resp(400, "API_KEY_MISSING")
            /\ UNCHANGED <<pc, search, meter>>
       ELSE IF ~keys.geocoding
       THEN /\ response' = Resp(400, "CITY_NOT_FOUND")
            /\ UNCHANGED <<pc, search, meter>>
       ELSE /\ Issued + Pending(peer) + 1 + ClampPages(client_max_pages) <= MaxCalls
            /\ pc' = "geocode"
            /\ search' = [NoSearch EXCEPT !.max_pages = ClampPages(client_max_pages)]
            /\ response' = NoResponse
            /\ meter' = meter

\* api_search up to the point where search_places_paginated issues its
\* first external call: parsing, the budget gate, the key checks.
api_search(body, client_max_pages) ==
    /\ program = "app"
    /\ pc = "idle"
    /\ UNCHANGED <<envVars, dbVars, attempts>>
    /\ UNCHANGED <<keys, requests_this_month, cost_this_month, usage_file, save_error, peer, adders>>
    /\ IF body = "malformed"
       THEN /\ response' = Resp(500, "EXCEPTION")
            /\ UNCHANGED <<pc, search>>
       ELSE IF body = "missing_fields"
       THEN /\ response' = Resp(400, "MISSING_FIELDS")
            /\ UNCHANGED <<pc, search>>
       ELSE IF CounterRaises
       THEN /\ response' = Resp(400, "UNKNOWN_ERROR")
            /\ UNCHANGED <<pc, search>>
       ELSE IF ~app_can_make_request
       THEN /\ response' = Resp(400, "BUDGET_EXCEEDED")
            /\ UNCHANGED <<pc, search>>
       ELSE IF ~keys.places
       THEN /\ response' = Resp(400, "API_KEY_MISSING")
            /\ UNCHANGED <<pc, search>>
       ELSE IF ~keys.geocoding
       THEN /\ response' = Resp(400, "CITY_NOT_FOUND")
            /\ UNCHANGED <<pc, search>>
       ELSE /\ Issued + Pending(peer) + 1 + ClampPages(client_max_pages) <= MaxCalls
            /\ pc' = "geocode"
            /\ search' = [NoSearch EXCEPT !.max_pages = ClampPages(client_max_pages)]
            /\ response' = NoResponse

GeocodeOutcomes == {"OK", "ZERO_RESULTS", "HTTP_ERROR", "TIMEOUT"}

\* get_city_coordinates: the geocoding request and its answer.
get_city_coordinates(outcome) ==
    /\ program = "app"
    /\ pc = "geocode"
    /\ meter' = [meter EXCEPT !.geocode = @ + 1]
    /\ UNCHANGED <<program, now, second, config, dbVars, attempts>>
    /\ UNCHANGED <<keys, requests_this_month, cost_this_month, usage_file, save_error, search, peer, adders>>
    /\ IF outcome = "OK"
       THEN /\ pc' = "page"
            /\ response' = response
       ELSE /\ pc' = "idle"
            /\ response' = Resp(400, "CITY_NOT_FOUND")

PageOutcomes == {"OK_MORE", "OK_LAST", "OK_MALFORMED", "ZERO_RESULTS", "HTTP_ERROR", "TIMEOUT"}

\* A pagination loop that answers a non-OK status on any page with the
\* error result, discarding the places of the earlier pages.
places_page_error_on_any_page(outcome, write) ==
    /\ program = "app"
    /\ pc = "page"
    /\ meter' = [meter EXCEPT !.places = @ + 1]
    /\ UNCHANGED <<program, now, second, config, dbVars, keys, peer, adders>>
    /\ CASE outcome = "TIMEOUT" ->
              /\ write = "ok"
              /\ UNCHANGED <<requests_this_month, cost_this_month, usage_file, save_error, attempts>>
              /\ pc' = "idle"
              /\ search' = NoSearch
              /\ response' = Resp(400, "TIMEOUT")
         [] outcome = "HTTP_ERROR" ->
              /\ write = "ok"
              /\ UNCHANGED <<requests_this_month, cost_this_month, usage_file, save_error, attempts>>
              /\ pc' = "idle"
              /\ search' = NoSearch
              /\ response' = Resp(400, "NETWORK_ERROR")
         [] outcome = "OK_MALFORMED" ->
              /\ app_add_request(write)
              /\ attempts' = RunStep(attempts, now)
              /\ pc' = "idle"
              /\ search' = NoSearch
              /\ response' = Resp(400, "UNKNOWN_ERROR")
         [] outcome = "ZERO_RESULTS" ->
              /\ app_add_request(write)
              /\ attempts' = RunStep(attempts, now)
              /\ pc' = "idle"
              /\ search' = NoSearch
              /\ response' = Resp(400, "ZERO_RESULTS")
         [] OTHER ->
              LET page_count == search.page_count + 1
                  page_token == (outcome = "OK_MORE")
                  all_results == Append(search.all_results, page_count)
              IN  /\ app_add_request(write)
                  /\ attempts' = RunStep(attempts, now)
                  /\ IF ~page_token \/ page_count >= search.max_pages
                     THEN /\ pc' = "idle"
                          /\ search' = NoSearch
                          /\ response' = SearchResult(page_count, all_results)
                     ELSE /\ pc' = "page"
                          /\ search' = [search EXCEPT !.page_count = page_count,
                                                      !.page_token = page_token,
                                                      !.all_results = all_results]
                          /\ response' = response

\* One turn of the pagination loop: the Places request, its answer, the
\* accounting and the decision to go on.  A timeout or an HTTP error status
\* raises before add_request: nothing is written, and write is fixed.
places_page(outcome, write) ==
    /\ program = "app"
    /\ pc = "page"
    /\ meter' = [meter EXCEPT !.places = @ + 1]
    /\ UNCHANGED <<program, now, second, config, dbVars, keys, peer, adders>>
    /\ CASE outcome = "TIMEOUT" ->
              /\ write = "ok"
              /\ UNCHANGED <<requests_this_month, cost_this_month, usage_file, save_error, attempts>>
              /\ pc' = "idle"
              /\ search' = NoSearch
              /\ response' = Resp(400, "TIMEOUT")
         [] outcome = "HTTP_ERROR" ->
              /\ write = "ok"
              /\ UNCHANGED <<requests_this_month, cost_this_month, usage_file, save_error, attempts>>
              /\ pc' = "idle"
              /\ search' = NoSearch
              /\ response' = Resp(400, "NETWORK_ERROR")
         [] outcome = "OK_MALFORMED" ->
              /\ app_add_request(write)
              /\ attempts' = RunStep(attempts, now)
              /\ pc' = "idle"
              /\ search' = NoSearch
              /\ response' = Resp(400, "UNKNOWN_ERROR")
         [] outcome = "ZERO_RESULTS" ->
              /\ app_add_request(write)
              /\ attempts' = RunStep(attempts, now)
              /\ pc' = "idle"
              /\ search' = NoSearch
              /\ response' = IF search.page_count = 0
                             THEN Resp(400, "ZERO_RESULTS")
                             ELSE SearchResult(search.page_count, search.all_results)
         [] OTHER ->
              LET page_count == search.page_count + 1
                  page_token == (outcome = "OK_MORE")
                  all_results == Append(search.all_results, page_count)
              IN  /\ app_add_request(write)
                  /\ attempts' = RunStep(attempts, now)
                  /\ IF ~page_token \/ page_count >= search.max_pages
                     THEN /\ pc' = "idle"
                          /\ search' = NoSearch
                          /\ response' = SearchResult(page_count, all_results)
                     ELSE /\ pc' = "page"
                          /\ search' = [search EXCEPT !.page_count = page_count,
                                                      !.page_token = page_token,
                                                      !.all_results = all_results]
                          /\ response' = response

\* GET /api/usage
api_usage ==
    /\ program = "app"
    /\ pc = "idle"
    /\ response' = IF CounterRaises
                   THEN Resp(500, "EXCEPTION")
                   ELSE [status |-> 200, code |-> "USAGE",
                         requests |-> requests_this_month,
                         cost |-> Format2f(cost_this_month),
                         budget_used |-> Format1f(app_get_usage_percentage(requests_this_month,
                                                                           cost_this_month))]
    /\ UNCHANGED <<envVars, dbVars, attempts>>
    /\ UNCHANGED <<keys, requests_this_month, cost_this_month, usage_file, save_error, pc, search, peer, adders>>

\* The process stops (a crash, a redeploy) and the module is imported
\* again: tracker = UsageTracker() reloads the counters from the file.
Restart ==
    /\ program = "app"
    /\ LET loaded == app_load_usage(usage_file, MonthKey(now))
       IN  /\ requests_this_month' = loaded.requests
           /\ cost_this_month' = loaded.cost
           /\ attempts' = IF usage_file.kind = "json" /\ usage_file.month = MonthKey(now)
                          THEN NoRun
                          ELSE RunStart(now)
    /\ save_error' = FALSE
    /\ pc' = "idle"
    /\ search' = NoSearch
    /\ response' = NoResponse
    /\ peer' = NoPeer
    /\ adders' = NoAdders
    /\ UNCHANGED <<envVars, dbVars, keys, usage_file>>

\* The server is threaded (app.run, line 1058): a second request is handled
\* while the first waits for the external service or sleeps between pages.
\* pc, search and response are those of the thread that runs; the scheduler
\* hands the processor to the other one.
Switch ==
    /\ program = "app"
    /\ pc' = peer.pc
    /\ search' = peer.search
    /\ response' = peer.response
    /\ peer' = [pc |-> pc, search |-> search, response |-> response]
    /\ adders' = adders
    /\ UNCHANGED <<envVars, dbVars, attempts>>
    /\ UNCHANGED <<keys, requests_this_month, cost_this_month, usage_file, save_error>>

(* ============================ environment ============================= *)

\* The calendar month changes; the provider's monthly meter starts again.
Tick ==
    /\ now < FirstMonth + MaxTicks
    /\ now' = now + 1
    /\ meter' = ZeroMeter
    /\ UNCHANGED <<program, second, config, appVars, dbVars, attempts>>

(* ==================== usage_tracker.py: UsageTracker ================== *)

\* round(x, 2) of an amount in thousandths: the nearest hundredth, a tie
\* going to the even one.
Round2(c) ==
    LET q == c \div 10
        r == c % 10
    IN  IF r > 5 \/ (r = 5 /\ q % 2 = 1) THEN (q + 1) * 10 ELSE q * 10

HasRow(table, key) ==
    \E i \in 1..Len(table) : table[i].year = key.year /\ table[i].month = key.month

\* _ensure_month_exists that starts the new month from the counters of the
\* newest row instead of the column defaults.
ut_ensure_month_exists_carry(table, key) ==
    IF HasRow(table, key)
    THEN table
    ELSE Append(table, [year |-> key.year, month |-> key.month,
                        requests |-> IF table = <<>> THEN 0 ELSE table[Len(table)].requests,
                        cost |-> IF table = <<>> THEN 0 ELSE table[Len(table)].cost])

\* _ensure_month_exists written with INSERT OR REPLACE: an existing row is
\* dropped and a zeroed one takes its place.
ut_ensure_month_exists_replace(table, key) ==
    Append(SelectSeq(table, LAMBDA row : ~(row.year = key.year /\ row.month = key.month)),
           [year |-> key.year, month |-> key.month, requests |-> 0, cost |-> 0])

\* _ensure_month_exists with a plain INSERT on a table without the UNIQUE
\* constraint: every call adds a row.
ut_ensure_month_exists_insert(table, key) ==
    Append(table, [year |-> key.year, month |-> key.month, requests |-> 0, cost |-> 0])

\* _ensure_month_exists: INSERT OR IGNORE under UNIQUE(year, month), the
\* counters taking their column defaults.
ut_ensure_month_exists(table, key) ==
    IF HasRow(table, key)
    THEN table
    ELSE Append(table, [year |-> key.year, month |-> key.month, requests |-> 0, cost |-> 0])

\* SELECT requests, cost ... WHERE year = ? AND month = ?, then fetchone().
ut_fetchone(table, key) ==
    IF HasRow(table, key)
    THEN LET i == CHOOSE j \in 1..Len(table) :
                      /\ table[j].year = key.year /\ table[j].month = key.month
                      /\ \A k \in 1..(j - 1) :
                            ~(table[k].year = key.year /\ table[k].month = key.month)
         IN  [found |-> TRUE, requests |-> table[i].requests, cost |-> table[i].cost]
    ELSE [found |-> FALSE, requests |-> 0, cost |-> 0]

\* get_current_usage whose percent_used is the larger of the request share
\* and the cost share.
ut_get_current_usage_with_cost(table, key) ==
    LET result == ut_fetchone(table, key)
        requests_used == result.requests
        cost_used == result.cost
        requests_pct == IF config.max_requests_per_month > 0
                        THEN (requests_used * 100) \div config.max_requests_per_month
                        ELSE 0
        cost_pct == IF config.max_cost_per_month > 0
                    THEN (cost_used * 100) \div config.max_cost_per_month
                    ELSE 0
        percent_used == Max(requests_pct, cost_pct)
    IN  [requests |-> requests_used,
         cost |-> Round2(cost_used),
         requests_remaining |-> Max(0, config.max_requests_per_month - requests_used),
         cost_remaining |-> Round2(Max(0, config.max_cost_per_month - cost_used)),
         percent_used |-> percent_used,
         status |-> IF percent_used >= 100 THEN "exceeded"
                    ELSE IF percent_used >= 80 THEN "warning"
                    ELSE "ok",
         month |-> key,
         max_requests |-> config.max_requests_per_month,
         max_cost |-> config.max_cost_per_month]

\* get_current_usage after its _ensure_month_exists: lines 130-167.
ut_get_current_usage(table, key) ==
    LET result == ut_fetchone(table, key)
        requests_used == result.requests
        cost_used == result.cost
        percent_used == IF config.max_requests_per_month > 0
                        THEN (requests_used * 100) \div config.max_requests_per_month
                        ELSE 0
    IN  [requests |-> requests_used,
         cost |-> Round2(cost_used),
         requests_remaining |-> Max(0, config.max_requests_per_month - requests_used),
         cost_remaining |-> Round2(Max(0, config.max_cost_per_month - cost_used)),
         percent_used |-> percent_used,
         status |-> IF percent_used >= 100 THEN "exceeded"
                    ELSE IF percent_used >= 80 THEN "warning"
                    ELSE "ok",
         month |-> key,
         max_requests |-> config.max_requests_per_month,
         max_cost |-> config.max_cost_per_month]

\* can_make_request, given the snapshot: the reason is kept as the values its
\* f-string interpolates.
ut_can_make_request(usage) ==
    IF usage.status = "exceeded"
    THEN [op |-> "can_make_request", allowed |-> FALSE,
          reason |-> [text |-> "API Budget Exceeded", requests |-> usage.requests,
                      cost |-> usage.cost, allowed |-> config.max_requests_per_month]]
    ELSE [op |-> "can_make_request", allowed |-> TRUE, reason |-> [text |-> ""]]

\* get_alert_message, given the snapshot.
ut_get_alert_message(usage) ==
    [op |-> "get_alert_message",
     level |-> IF usage.percent_used >= 100 THEN "critical"
               ELSE IF usage.percent_used >= 90 THEN "warning"
               ELSE IF usage.percent_used >= 75 THEN "info"
               ELSE "none"]

\* The UPDATE of log_request without its WHERE clause: every row is
\* incremented.
ut_update_month_all(table, key, cost) ==
    [i \in 1..Len(table) |-> [table[i] EXCEPT !.requests = @ + 1, !.cost = @ + cost]]

\* UPDATE monthly_usage SET requests = requests + 1, cost = cost + ? WHERE ...
ut_update_month(table, key, cost) ==
    [i \in 1..Len(table) |->
        IF table[i].year = key.year /\ table[i].month = key.month
        THEN [table[i] EXCEPT !.requests = @ + 1, !.cost = @ + cost]
        ELSE table[i]]

\* UPDATE monthly_usage SET requests = 0, cost = 0.0 WHERE ...
ut_reset_rows(table, key) ==
    [i \in 1..Len(table) |->
        IF table[i].year = key.year /\ table[i].month = key.month
        THEN [table[i] EXCEPT !.requests = 0, !.cost = 0]
        ELSE table[i]]

\* The row INSERT INTO request_log writes; timestamp is CURRENT_TIMESTAMP,
\* which SQLite gives to the second: the month and the second within it.
LogEntry(endpoint, query_type, cost, status, notes) ==
    [timestamp |-> now, second |-> second, endpoint |-> endpoint, query_type |-> query_type,
     cost |-> cost, status |-> status, notes |-> notes]

NoLocal == [call |-> "none", success |-> FALSE, key |-> MonthKey(0)]

\* A caller that is inside no method.
NoCaller == [pc |-> "idle", local |-> NoLocal]

\* The request_log entries the methods in progress will add.
PendingLog == IF db_peer.pc \in {"log_key", "log_write"} THEN 1 ELSE 0

NoRet == [op |-> "none"]

ReadCalls == {"get_current_usage", "can_make_request", "get_alert_message"}

\* get_current_usage, alone or on behalf of can_make_request or
\* get_alert_message: its first statement, _ensure_month_exists.
ut_read_begin(call) ==
    /\ program = "usage_tracker"
    /\ db_pc = "idle"
    /\ monthly_usage' = ut_ensure_month_exists(monthly_usage, MonthKey(now))
    /\ db_pc' = "usage_read"
    /\ db_local' = [NoLocal EXCEPT !.call = call]
    /\ attempts' = IF HasRow(monthly_usage, MonthKey(now)) THEN attempts ELSE RunStart(now)
    /\ UNCHANGED <<envVars, appVars, request_log, db_ret, db_peer, adders>>

\* The rest of get_current_usage (the clock is read again) and of its caller.
ut_read_end ==
    /\ program = "usage_tracker"
    /\ db_pc = "usage_read"
    /\ LET usage == ut_get_current_usage(monthly_usage, MonthKey(now))
       IN  db_ret' = CASE db_local.call = "can_make_request" -> ut_can_make_request(usage)
                       [] db_local.call = "get_alert_message" -> ut_get_alert_message(usage)
                       [] OTHER -> [op |-> "get_current_usage", usage |-> usage]
    /\ db_pc' = "idle"
    /\ db_local' = NoLocal
    /\ UNCHANGED <<envVars, appVars, monthly_usage, request_log, attempts, db_peer, adders>>

\* log_request: _ensure_month_exists (line 204).
ut_log_request_begin(success) ==
    /\ program = "usage_tracker"
    /\ db_pc = "idle"
    /\ Len(request_log) + PendingLog < MaxLog
    /\ monthly_usage' = ut_ensure_month_exists(monthly_usage, MonthKey(now))
    /\ db_pc' = "log_key"
    /\ db_local' = [NoLocal EXCEPT !.call = "log_request", !.success = success]
    /\ attempts' = IF HasRow(monthly_usage, MonthKey(now)) THEN attempts ELSE RunStart(now)
    /\ UNCHANGED <<envVars, appVars, request_log, db_ret, db_peer, adders>>

\* log_request: year, month = self._get_current_month_key() (line 206).
ut_log_request_key ==
    /\ program = "usage_tracker"
    /\ db_pc = "log_key"
    /\ db_local' = [db_local EXCEPT !.key = MonthKey(now)]
    /\ db_pc' = "log_write"
    /\ UNCHANGED <<envVars, appVars, monthly_usage, request_log, db_ret, attempts, db_peer, adders>>

\* log_request: the INSERT, the UPDATE and the commit (lines 207-228).
ut_log_request_write ==
    /\ program = "usage_tracker"
    /\ db_pc = "log_write"
    /\ LET cost == config.cost_per_request
           status == IF db_local.success THEN "success" ELSE "failed"
       IN  /\ request_log' = Append(request_log,
                                    LogEntry("search_nearby", "plumber", cost, status, "NULL"))
           /\ monthly_usage' = ut_update_month(monthly_usage, db_local.key, cost)
    /\ attempts' = IF /\ attempts.n >= 0
                      /\ attempts.period = db_local.key
                      /\ db_local.key = MonthKey(now)
                   THEN [attempts EXCEPT !.n = @ + 1]
                   ELSE NoRun
    /\ db_pc' = "idle"
    /\ db_local' = NoLocal
    /\ db_ret' = [op |-> "log_request"]
    /\ UNCHANGED <<envVars, appVars, db_peer, adders>>

\* log_failed_request that bills the blocked call to the current month.
ut_log_failed_request_billed(reason) ==
    /\ program = "usage_tracker"
    /\ db_pc = "idle"
    /\ Len(request_log) + PendingLog < MaxLog
    /\ request_log' = Append(request_log, LogEntry("blocked", "NULL", 0, "blocked", reason))
    /\ monthly_usage' = ut_update_month(monthly_usage, MonthKey(now), config.cost_per_request)
    /\ db_ret' = [op |-> "log_failed_request"]
    /\ UNCHANGED <<envVars, appVars, db_pc, db_local, attempts, db_peer, adders>>

\* log_failed_request: query_type and cost take their column defaults.
ut_log_failed_request(reason) ==
    /\ program = "usage_tracker"
    /\ db_pc = "idle"
    /\ Len(request_log) + PendingLog < MaxLog
    /\ request_log' = Append(request_log, LogEntry("blocked", "NULL", 0, "blocked", reason))
    /\ db_ret' = [op |-> "log_failed_request"]
    /\ UNCHANGED <<envVars, appVars, monthly_usage, db_pc, db_local, attempts, db_peer, adders>>

\* reset_month that also deletes the month's request_log entries.
ut_reset_month_clears_log(key) ==
    /\ program = "usage_tracker"
    /\ db_pc = "idle"
    /\ monthly_usage' = ut_reset_rows(monthly_usage, key)
    /\ request_log' = SelectSeq(request_log, LAMBDA entry : MonthKey(entry.timestamp) # key)
    /\ attempts' = IF attempts.period = key THEN NoRun ELSE attempts
    /\ db_ret' = [op |-> "reset_month"]
    /\ UNCHANGED <<envVars, appVars, db_pc, db_local, db_peer, adders>>

\* reset_month
ut_reset_month(key) ==
    /\ program = "usage_tracker"
    /\ db_pc = "idle"
    /\ monthly_usage' = ut_reset_rows(monthly_usage, key)
    /\ attempts' = IF attempts.period = key THEN NoRun ELSE attempts
    /\ db_ret' = [op |-> "reset_month"]
    /\ UNCHANGED <<envVars, appVars, request_log, db_pc, db_local, db_peer, adders>>

\* A second caller (a thread or a process with its own UsageTracker over the
\* same usage.db) runs while the first is between two of its transactions.
\* db_pc and db_local are those of the caller that runs.
SwitchCaller ==
    /\ program = "usage_tracker"
    /\ db_pc' = db_peer.pc
    /\ db_local' = db_peer.local
    /\ db_peer' = [pc |-> db_pc, local |-> db_local]
    /\ UNCHANGED <<envVars, appVars, monthly_usage, request_log, db_ret, attempts>>

\* Whether row a comes before row b under ORDER BY year DESC, month DESC.
Newer(a, b) == a.year > b.year \/ (a.year = b.year /\ a.month > b.month)

RECURSIVE OrderDesc(_)
OrderDesc(rows) ==
    IF rows = {}
    THEN <<>>
    ELSE LET top == CHOOSE a \in rows : \A b \in rows \ {a} : Newer(a, b) \/ ~Newer(b, a)
         IN  <<top>> \o OrderDesc(rows \ {top})

\* LIMIT ?: a negative limit is no limit.
Limit(seq, n) == IF n < 0 \/ n >= Len(seq) THEN seq ELSE SubSeq(seq, 1, n)

\* get_monthly_history without its ORDER BY: the rows come in rowid order.
ut_get_monthly_history_unordered(table, months) ==
    LET results == Limit(table, months)
    IN  [i \in 1..Len(results) |->
            [month |-> [year |-> results[i].year, month |-> results[i].month],
             requests |-> results[i].requests,
             cost |-> Round2(results[i].cost)]]

\* get_monthly_history
ut_get_monthly_history(table, months) ==
    LET results == Limit(OrderDesc({[id |-> i, year |-> table[i].year, month |-> table[i].month,
                                     requests |-> table[i].requests, cost |-> table[i].cost] :
                                        i \in 1..Len(table)}), months)
    IN  [i \in 1..Len(results) |->
            [month |-> [year |-> results[i].year, month |-> results[i].month],
             requests |-> results[i].requests,
             cost |-> Round2(results[i].cost)]]

\* Whether row a comes before row b under ORDER BY timestamp DESC.  SQL leaves
\* the order of rows with equal timestamps open; SQLite gives them by rowid,
\* ascending when it sorts and descending when it walks an index backwards.
Before(a, b, ties) ==
    \/ a.timestamp > b.timestamp
    \/ a.timestamp = b.timestamp /\ a.second > b.second
    \/ /\ a.timestamp = b.timestamp /\ a.second = b.second
       /\ IF ties = "rowid_asc" THEN a.id < b.id ELSE a.id > b.id

TieOrders == {"rowid_asc", "rowid_desc"}

RECURSIVE OrderLog(_, _)
OrderLog(rows, ties) ==
    IF rows = {}
    THEN <<>>
    ELSE LET top == CHOOSE a \in rows : \A b \in rows \ {a} : Before(a, b, ties)
         IN  <<top>> \o OrderLog(rows \ {top}, ties)

\* The dictionary get_detailed_log builds from a row.
LogDict(row) ==
    [timestamp |-> <<row.timestamp, row.second>>, endpoint |-> row.endpoint,
     query_type |-> row.query_type, cost |-> Round2(row.cost),
     status |-> row.status, notes |-> row.notes]

\* get_detailed_log
ut_get_detailed_log(table, limit, ties) ==
    LET results == Limit(OrderLog({[id |-> i, timestamp |-> table[i].timestamp,
                                    second |-> table[i].second,
                                    endpoint |-> table[i].endpoint,
                                    query_type |-> table[i].query_type,
                                    cost |-> table[i].cost, status |-> table[i].status,
                                    notes |-> table[i].notes] : i \in 1..Len(table)}, ties),
                         limit)
    IN  [i \in 1..Len(results) |-> LogDict(results[i])]

\* The default of get_detailed_log's parameter.
DefaultLimit == 100

LogLimits == {1, DefaultLimit}

get_detailed_log(limit, ties) ==
    /\ program = "usage_tracker"
    /\ db_pc = "idle"
    /\ db_ret' = [op |-> "get_detailed_log",
                  log |-> ut_get_detailed_log(request_log, limit, ties)]
    /\ UNCHANGED <<envVars, appVars, monthly_usage, request_log, db_pc, db_local, attempts, db_peer, adders>>

\* A second passes.
TickSecond ==
    /\ second < MaxSeconds
    /\ second' = second + 1
    /\ UNCHANGED <<program, now, config, meter, appVars, dbVars, attempts>>

\* The default of get_monthly_history's parameter.
DefaultMonths == 12

HistoryLimits == {1, DefaultMonths}

get_monthly_history(months) ==
    /\ program = "usage_tracker"
    /\ db_pc = "idle"
    /\ db_ret' = [op |-> "get_monthly_history",
                  history |-> ut_get_monthly_history(monthly_usage, months)]
    /\ UNCHANGED <<envVars, appVars, monthly_usage, request_log, db_pc, db_local, attempts, db_peer, adders>>

(* =========================== specification ============================ *)

Months == FirstMonth..(FirstMonth + MaxTicks)

Init ==
    /\ program \in {"app", "usage_tracker"}
    /\ now = FirstMonth
    /\ second = 0
    /\ config \in Configs
    /\ meter = ZeroMeter
    /\ keys \in (IF program = "app" THEN KeyConfigs ELSE {[places |-> TRUE, geocoding |-> TRUE]})
    /\ usage_file \in (IF program = "app" THEN InitialFiles ELSE {NoFile})
    /\ requests_this_month = app_load_usage(usage_file, MonthKey(FirstMonth)).requests
    /\ cost_this_month = app_load_usage(usage_file, MonthKey(FirstMonth)).cost
    /\ save_error = FALSE
    /\ pc = "idle"
    /\ search = NoSearch
    /\ response = NoResponse
    /\ peer = NoPeer
    /\ adders = NoAdders
    /\ monthly_usage = <<>>
    /\ request_log = <<>>
    /\ db_pc = "idle"
    /\ db_local = NoLocal
    /\ db_ret = NoRet
    /\ db_peer = NoCaller
    /\ attempts = (IF usage_file.kind = "json" THEN NoRun ELSE RunStart(FirstMonth))

Next ==
    \/ \E body \in Bodies, v \in ClientMaxPages : api_search(body, v)
    \/ \E outcome \in GeocodeOutcomes : get_city_coordinates(outcome)
    \/ \E outcome \in PageOutcomes, write \in WriteOutcomes : places_page(outcome, write)
    \/ api_usage
    \/ Restart
    \/ Tick
    \/ \E call \in ReadCalls : ut_read_begin(call)
    \/ ut_read_end
    \/ \E success \in BOOLEAN : ut_log_request_begin(success)
    \/ ut_log_request_key
    \/ ut_log_request_write
    \/ \E reason \in {"budget"} : ut_log_failed_request(reason)
    \/ \E t \in Months : ut_reset_month(MonthKey(t))
    \/ \E months \in HistoryLimits : get_monthly_history(months)

Spec == Init /\ [][Next]_vars

\* get_usage_percentage over the limits and counters a tracker may hold: a
\* limit of 0 on either side, and counters loaded from a file of the month,
\* below, at and above the limits.
PctConfigs == {Cfg(r, c, 10) : r \in {0, 2, 3}, c \in {0, 20, 1000}}

InitPct ==
    /\ program = "app"
    /\ now = FirstMonth
    /\ second = 0
    /\ config \in PctConfigs
    /\ meter = ZeroMeter
    /\ keys = [places |-> TRUE, geocoding |-> TRUE]
    /\ usage_file \in { [kind |-> "json", month |-> MonthKey(FirstMonth),
                         requests |-> r, cost |-> 10 * k] : r, k \in 0..MaxCalls }
    /\ requests_this_month = app_load_usage(usage_file, MonthKey(FirstMonth)).requests
    /\ cost_this_month = app_load_usage(usage_file, MonthKey(FirstMonth)).cost
    /\ save_error = FALSE
    /\ pc = "idle"
    /\ search = NoSearch
    /\ response = NoResponse
    /\ peer = NoPeer
    /\ adders = NoAdders
    /\ monthly_usage = <<>>
    /\ request_log = <<>>
    /\ db_pc = "idle"
    /\ db_local = NoLocal
    /\ db_ret = NoRet
    /\ db_peer = NoCaller
    /\ attempts = NoRun

NextPct == api_usage

SpecPct == InitPct /\ [][NextPct]_vars

\* usage_tracker.py with the clock kept to the second: every public method,
\* get_detailed_log included, under one configuration.
InitLog ==
    /\ Init
    /\ program = "usage_tracker"
    /\ config = Cfg(3, 20, 10)

NextLog ==
    \/ \E call \in {"can_make_request"} : ut_read_begin(call)
    \/ ut_read_end
    \/ \E success \in {TRUE} : ut_log_request_begin(success)
    \/ ut_log_request_key
    \/ ut_log_request_write
    \/ \E reason \in {"budget"} : ut_log_failed_request(reason)
    \/ \E t \in Months : ut_reset_month(MonthKey(t))
    \/ \E months \in {DefaultMonths} : get_monthly_history(months)
    \/ \E limit \in LogLimits, ties \in TieOrders : get_detailed_log(limit, ties)
    \/ Tick
    \/ TickSecond

SpecLog == InitLog /\ [][NextLog]_vars

\* usage_tracker.py with two callers over one database.
InitCallers ==
    /\ Init
    /\ program = "usage_tracker"
    /\ config = Cfg(3, 20, 10)

NextCallers ==
    \/ \E call \in {"get_current_usage"} : ut_read_begin(call)
    \/ ut_read_end
    \/ \E success \in {TRUE} : ut_log_request_begin(success)
    \/ ut_log_request_key
    \/ ut_log_request_write
    \/ \E t \in Months : ut_reset_month(MonthKey(t))
    \/ Tick
    \/ SwitchCaller

SpecCallers == InitCallers /\ [][NextCallers]_vars

\* app.py with two request threads.  A limit of 1 leaves one call in the
\* budget of a fresh tracker.
ThreadConfigs == {Cfg(1, 1000, 10), Cfg(2, 1000, 10)}

InitThreads ==
    /\ program = "app"
    /\ now = FirstMonth
    /\ second = 0
    /\ config \in ThreadConfigs
    /\ meter = ZeroMeter
    /\ keys \in KeyConfigs
    /\ requests_this_month = 0
    /\ cost_this_month = 0
    /\ usage_file = NoFile
    /\ save_error = FALSE
    /\ pc = "idle"
    /\ search = NoSearch
    /\ response = NoResponse
    /\ peer = NoPeer
    /\ adders = NoAdders
    /\ monthly_usage = <<>>
    /\ request_log = <<>>
    /\ db_pc = "idle"
    /\ db_local = NoLocal
    /\ db_ret = NoRet
    /\ db_peer = NoCaller
    /\ attempts = RunStart(FirstMonth)

NextThreads ==
    \/ \E body \in Bodies, v \in ClientMaxPages : api_search(body, v)
    \/ \E outcome \in GeocodeOutcomes : get_city_coordinates(outcome)
    \/ \E outcome \in PageOutcomes, write \in WriteOutcomes : places_page(outcome, write)
    \/ api_usage
    \/ Restart
    \/ Tick
    \/ Switch

SpecThreads == InitThreads /\ [][NextThreads]_vars

(* ------------- app.py: add_request, statement by statement ------------- *)

\* Request threads share the one tracker of line 164 and nothing in
\* UsageTracker takes a lock.  An add_request call in progress: where it
\* stands, the value its += has read, and the dictionary its save_usage has
\* built.
NoData == [month |-> MonthKey(0), requests |-> 0, cost |-> 0]

NewAdder == [pc |-> "read_requests", top |-> 0, data |-> NoData]

AddStep(t, at) ==
    /\ program = "app"
    /\ t \in DOMAIN adders
    /\ adders[t].pc = at
    /\ UNCHANGED <<envVars, dbVars, attempts, keys, pc, search, response, peer>>

\* line 136, self.requests_this_month += 1: the read
add_request_read_requests(t) ==
    /\ AddStep(t, "read_requests")
    /\ adders' = [adders EXCEPT ![t].pc = "write_requests", ![t].top = requests_this_month]
    /\ UNCHANGED <<requests_this_month, cost_this_month, usage_file, save_error>>

\* line 136: the write
add_request_write_requests(t) ==
    /\ AddStep(t, "write_requests")
    /\ requests_this_month' = adders[t].top + 1
    /\ adders' = [adders EXCEPT ![t].pc = "read_cost"]
    /\ UNCHANGED <<cost_this_month, usage_file, save_error>>

\* line 137, self.cost_this_month += self.cost_per_request: the read
add_request_read_cost(t) ==
    /\ AddStep(t, "read_cost")
    /\ adders' = [adders EXCEPT ![t].pc = "write_cost", ![t].top = cost_this_month]
    /\ UNCHANGED <<requests_this_month, cost_this_month, usage_file, save_error>>

\* line 137: the write
add_request_write_cost(t) ==
    /\ AddStep(t, "write_cost")
    /\ cost_this_month' = adders[t].top + config.cost_per_request
    /\ adders' = [adders EXCEPT ![t].pc = "save"]
    /\ UNCHANGED <<requests_this_month, usage_file, save_error>>

\* save_usage, lines 123-128: the dictionary is built from the counters
add_request_save_data(t) ==
    /\ AddStep(t, "save")
    /\ adders' = [adders EXCEPT ![t].pc = "write_file",
                                ![t].data = [month |-> MonthKey(now),
                                             requests |-> requests_this_month,
                                             cost |-> cost_this_month]]
    /\ UNCHANGED <<requests_this_month, cost_this_month, usage_file, save_error>>

\* save_usage, lines 129-133: the file is opened and the dictionary dumped
add_request_write_file(t, write) ==
    /\ AddStep(t, "write_file")
    /\ usage_file' = CASE write = "ok" -> [kind |-> "json", month |-> adders[t].data.month,
                                          requests |-> adders[t].data.requests,
                                          cost |-> adders[t].data.cost]
                       [] write = "open_fails" -> usage_file
                       [] OTHER -> Corrupt
    /\ save_error' = (save_error \/ write # "ok")
    /\ adders' = [adders EXCEPT ![t].pc = "done"]
    /\ UNCHANGED <<requests_this_month, cost_this_month>>

\* MaxAdders request threads of a fresh tracker have each reached the
\* add_request of line 270.
InitAdd ==
    /\ program = "app"
    /\ now = FirstMonth
    /\ second = 0
    /\ config \in ThreadConfigs
    /\ meter = [geocode |-> MaxAdders, places |-> MaxAdders]
    /\ keys = [geocoding |-> TRUE, places |-> TRUE]
    /\ requests_this_month = 0
    /\ cost_this_month = 0
    /\ usage_file = NoFile
    /\ save_error = FALSE
    /\ pc = "page"
    /\ search = [NoSearch EXCEPT !.max_pages = 1]
    /\ response = NoResponse
    /\ peer = [pc |-> "page", search |-> search, response |-> NoResponse]
    /\ adders = [t \in 1..MaxAdders |-> NewAdder]
    /\ monthly_usage = <<>>
    /\ request_log = <<>>
    /\ db_pc = "idle"
    /\ db_local = NoLocal
    /\ db_ret = NoRet
    /\ db_peer = NoCaller
    /\ attempts = NoRun

NextAdd ==
    \/ \E t \in 1..MaxAdders : add_request_read_requests(t)
    \/ \E t \in 1..MaxAdders : add_request_write_requests(t)
    \/ \E t \in 1..MaxAdders : add_request_read_cost(t)
    \/ \E t \in 1..MaxAdders : add_request_write_cost(t)
    \/ \E t \in 1..MaxAdders : add_request_save_data(t)
    \/ \E t \in 1..MaxAdders, write \in WriteOutcomes : add_request_write_file(t, write)

SpecAdd == InitAdd /\ [][NextAdd]_vars


(* ============================ properties ============================== *)

LimitReached(requests, cost) ==
    \/ requests >= config.max_requests_per_month
    \/ cost >= config.max_cost_per_month

\* The stored counters of a period: the tracker's attributes in app.py, the
\* period's row (none yet: zero) in usage_tracker.py.
Stored(key) ==
    IF program = "app"
    THEN [requests |-> requests_this_month, cost |-> cost_this_month]
    ELSE ut_fetchone(monthly_usage, key)

\* C1: after a run of n recordAttempt calls (add_request, log_request) made
\* in one period that started fresh, with any mix of success flags, the
\* period's stored request count is n and its stored cost n * cost_per_request.
C1_AttemptsCounted ==
    attempts.n >= 0 =>
        /\ Stored(attempts.period).requests = attempts.n
        /\ Stored(attempts.period).cost = attempts.n * config.cost_per_request

C1_Witness ==
    /\ program = "usage_tracker"
    /\ attempts.n = 2
    /\ \E i, j \in 1..Len(request_log) :
          request_log[i].status = "success" /\ request_log[j].status = "failed"

\* C2: in app.py, can_make_request() is False exactly when the request count
\* has reached max_requests_per_month or the cost has reached
\* max_cost_per_month.
C2_GateIffLimit ==
    program = "app" =>
        (~app_can_make_request <=> LimitReached(requests_this_month, cost_this_month))

\* The gate has just denied a search on the cost ceiling alone.
C2_Witness ==
    /\ program = "app"
    /\ response.code = "BUDGET_EXCEEDED"
    /\ ~app_can_make_request
    /\ requests_this_month < config.max_requests_per_month
    /\ cost_this_month >= config.max_cost_per_month

\* The steps that complete a can_make_request() of usage_tracker.py.
CanMakeRequestReturns == ut_read_end /\ db_local.call = "can_make_request"

\* C3: in usage_tracker.py, can_make_request() returns allowed = False exactly
\* when the current period's requests have reached max_requests_per_month or
\* its cost has reached max_cost_per_month.
C3_GateIffLimit ==
    [][CanMakeRequestReturns =>
          (db_ret'.allowed = FALSE <=>
              LimitReached(Stored(MonthKey(now)).requests, Stored(MonthKey(now)).cost))]_vars

\* C4: once max_requests_per_month recordAttempt calls were made in the
\* period, the next gate check denies, and the denial carries the limit that
\* was hit and the current counts: the reason of usage_tracker.py's
\* can_make_request, the rejection of app.py's search.
C4_DenialNamesLimit ==
    [][(attempts.n = config.max_requests_per_month /\ attempts.period = MonthKey(now)) =>
          /\ CanMakeRequestReturns =>
                /\ db_ret'.allowed = FALSE
                /\ db_ret'.reason.requests = attempts.n
                /\ db_ret'.reason.cost = Round2(attempts.n * config.cost_per_request)
                /\ db_ret'.reason.allowed = config.max_requests_per_month
          /\ (\E v \in ClientMaxPages : api_search("ok", v)) =>
                /\ response'.code = "BUDGET_EXCEEDED"
                /\ "requests" \in DOMAIN response'
                /\ response'.requests = attempts.n]_vars

\* C5: log_failed_request leaves every monthly_usage row as it was and
\* appends exactly one request_log entry, with status "blocked" and cost 0.
C5_BlockedNotCounted ==
    [][(\E reason \in {"budget"} : ut_log_failed_request(reason)) =>
          /\ monthly_usage' = monthly_usage
          /\ Len(request_log') = Len(request_log) + 1
          /\ SubSeq(request_log', 1, Len(request_log)) = request_log
          /\ request_log'[Len(request_log')].status = "blocked"
          /\ request_log'[Len(request_log')].cost = 0]_vars

\* A blocked call was logged while a month holds counted requests.
C5_Witness ==
    /\ db_ret.op = "log_failed_request"
    /\ Len(request_log) >= 2
    /\ request_log[Len(request_log)].status = "blocked"
    /\ \E i \in 1..Len(monthly_usage) : monthly_usage[i].requests > 0

\* The steps of the gate check and of the usage snapshot, in both programs.
ReadStep ==
    \/ \E body \in Bodies, v \in ClientMaxPages : api_search(body, v)
    \/ api_usage
    \/ \E call \in ReadCalls : ut_read_begin(call)
    \/ ut_read_end

\* C6: can_make_request, get_current_usage and get_usage_percentage change no
\* counter, no cost and no log entry of any period; all they may write is the
\* current period's row, created with zero counters when it is missing.
C6_ReadsOnlyCreateRow ==
    [][ReadStep =>
          /\ request_log' = request_log
          /\ <<requests_this_month, cost_this_month, usage_file>>' =
                <<requests_this_month, cost_this_month, usage_file>>
          /\ \/ monthly_usage' = monthly_usage
             \/ /\ ~HasRow(monthly_usage, MonthKey(now))
                /\ monthly_usage' = Append(monthly_usage,
                                           [year |-> MonthKey(now).year,
                                            month |-> MonthKey(now).month,
                                            requests |-> 0, cost |-> 0])]_vars

\* A read has just created the new month's row beside a month that holds
\* counted requests.
C6_Witness ==
    /\ db_pc = "usage_read"
    /\ Len(monthly_usage) = 2
    /\ monthly_usage[1].requests > 0
    /\ monthly_usage[2].requests = 0
    /\ ~(\E i \in 1..Len(request_log) : request_log[i].timestamp = now)

\* The counters were written under the month the clock still shows, or
\* nothing was ever written.
SameMonthAsFile == usage_file.kind = "json" => usage_file.month = MonthKey(now)

\* C7: in app.py, when every write of save_usage since construction
\* succeeded, a restart at any point, followed by load_usage in the month of
\* the last write, gives back the requests_this_month and cost_this_month
\* held before the restart.
C7_RestartKeepsCounters ==
    [][(Restart /\ ~save_error /\ SameMonthAsFile) =>
          /\ requests_this_month' = requests_this_month
          /\ cost_this_month' = cost_this_month]_vars

\* The process was restarted and came back with counted requests.
C7_Witness ==
    /\ program = "app"
    /\ pc = "idle"
    /\ response = NoResponse
    /\ ~save_error
    /\ requests_this_month >= 2
    /\ usage_file.kind = "json"
    /\ usage_file.requests = requests_this_month

RowKey(row) == [year |-> row.year, month |-> row.month]

\* Whether a log_request was logged in the month t.
LoggedIn(key) ==
    \E i \in 1..Len(request_log) :
        MonthKey(request_log[i].timestamp) = key /\ request_log[i].status # "blocked"

\* The steps of a month change and of what follows it in the new month:
\* the snapshot, the gate, the history, and log calls made wholly in it.
RolloverStep ==
    \/ Tick
    \/ \E call \in ReadCalls : ut_read_begin(call)
    \/ ut_read_end
    \/ \E months \in HistoryLimits : get_monthly_history(months)
    \/ \E reason \in {"budget"} : ut_log_failed_request(reason)
    \/ \E success \in BOOLEAN : ut_log_request_begin(success)
    \/ ut_log_request_key
    \/ ut_log_request_write /\ db_local.key = MonthKey(now)

\* The step leaves the row of every month but the current one as it was.
PastRowsKept ==
    \A i \in 1..Len(monthly_usage) :
        RowKey(monthly_usage[i]) # MonthKey(now') =>
            /\ Len(monthly_usage') >= i
            /\ monthly_usage'[i] = monthly_usage[i]

\* C8: in usage_tracker.py, once the month has changed from P to P',
\* get_current_usage reports 0 requests and 0 cost for P' as long as no
\* log_request was logged in P'; get_monthly_history returns the row of P,
\* and the month change and what follows it leave that row as it was (every
\* step keeps the past rows or is no such step).
C8_Rollover ==
    /\ [](db_ret.op = "get_current_usage" /\ ~LoggedIn(db_ret.usage.month) =>
             db_ret.usage.requests = 0 /\ db_ret.usage.cost = 0)
    /\ [](LET history == ut_get_monthly_history(monthly_usage, DefaultMonths)
          IN  \A i \in 1..Len(monthly_usage) :
                 \E j \in 1..Len(history) :
                    history[j] = [month |-> RowKey(monthly_usage[i]),
                                  requests |-> monthly_usage[i].requests,
                                  cost |-> Round2(monthly_usage[i].cost)])
    /\ [][PastRowsKept \/ ~RolloverStep]_vars

\* After a month with counted requests, the snapshot of the new month
\* reports zero and the old month's row is still there.
C8_Witness ==
    /\ now = FirstMonth + 1
    /\ db_ret.op = "get_current_usage"
    /\ db_ret.usage.month = MonthKey(now)
    /\ db_ret.usage.requests = 0
    /\ \E i \in 1..Len(monthly_usage) :
          /\ RowKey(monthly_usage[i]) = MonthKey(FirstMonth)
          /\ monthly_usage[i].requests = 2

\* C9: in app.py the counters of a period hold no call of an earlier
\* period: what save_usage wrote under the current month counts at most the
\* Places requests issued in that month.
C9_NoCarryOver ==
    (program = "app" /\ usage_file.kind = "json" /\ usage_file.month = MonthKey(now)) =>
        usage_file.requests <= meter.places

\* C10: every metered external call of search_places_paginated is issued in
\* a state where can_make_request() holds: none once the tracker would deny.
C10_GateBeforeEveryCall ==
    [][(\/ \E outcome \in GeocodeOutcomes : get_city_coordinates(outcome)
        \/ \E outcome \in PageOutcomes, write \in WriteOutcomes : places_page(outcome, write)) =>
          app_can_make_request]_vars


\* The steps that issue one external call: the geocoding request, a Places
\* page request.
ExternalCall == program = "app" /\ Issued' = Issued + 1

\* C11: in app.py every external call a search issues (the geocoding request
\* and each Places page request) runs add_request exactly once, whatever the
\* call's outcome, and a search rejected by the gate runs it not at all.
C11_EveryCallCounted ==
    [][/\ ExternalCall =>
             /\ requests_this_month' = requests_this_month + 1
             /\ cost_this_month' = cost_this_month + config.cost_per_request
       /\ (~app_can_make_request /\ \E v \in ClientMaxPages : api_search("ok", v)) =>
             /\ requests_this_month' = requests_this_month
             /\ cost_this_month' = cost_this_month]_vars


\* A search that passed the gate and has not run add_request yet.
Admitted(thread) ==
    \/ thread.pc = "geocode"
    \/ thread.pc = "page" /\ thread.search.page_count = 0

\* C12: with two request threads on the one tracker of app.py, no two
\* searches are past a gate check that both saw open while one call was left
\* in the budget, and requests_this_month is never more than one call above
\* max_requests_per_month.
C12_Serialized ==
    program = "app" =>
        /\ ~(/\ Admitted([pc |-> pc, search |-> search])
             /\ Admitted(peer)
             /\ requests_this_month + 1 = config.max_requests_per_month)
        /\ requests_this_month <= config.max_requests_per_month + 1


\* The page outcomes after which the loop reaches add_request.
CountedOutcomes == PageOutcomes \ {"TIMEOUT", "HTTP_ERROR"}

\* C13: in app.py, when the write of save_usage fails during add_request,
\* requests_this_month and cost_this_month still advance by 1 and
\* cost_per_request, the handler gets no exception from add_request, the
\* failure is reported, and usage_log.json keeps the content it had.
C13_FailedWriteKeepsFile ==
    [][\A outcome \in CountedOutcomes, write \in WriteOutcomes \ {"ok"} :
          places_page(outcome, write) =>
              /\ requests_this_month' = requests_this_month + 1
              /\ cost_this_month' = cost_this_month + config.cost_per_request
              /\ response'.status # 500
              /\ save_error'
              /\ usage_file' = usage_file]_vars


\* The tracker was constructed and has served nothing since.
JustConstructed == program = "app" /\ pc = "idle" /\ response = NoResponse

\* The file load_usage found is missing, unreadable or malformed.
Unusable(file) ==
    \/ file.kind \in {"absent", "unreadable", "corrupt", "not_object"}
    \/ file.kind = "json" /\ file.cost = NotANumber

\* C14: in app.py, a tracker constructed over a usage file that is missing,
\* unreadable or malformed has both counters at zero, and its
\* can_make_request() returns a decision instead of raising.
C14_LoadFallsBack ==
    (JustConstructed /\ Unusable(usage_file)) =>
        /\ requests_this_month = 0
        /\ cost_this_month = 0
        /\ ~CounterRaises


\* C15: in app.py, a search the gate denies issues no external call, leaves
\* the counters and usage_log.json as they were, and is answered with status
\* 400 and code BUDGET_EXCEEDED, not with an unhandled exception.
C15_DeniedSearchRejected ==
    [][(/\ ~CounterRaises
        /\ ~app_can_make_request
        /\ \E v \in ClientMaxPages : api_search("ok", v)) =>
          /\ response' = Resp(400, "BUDGET_EXCEEDED")
          /\ pc' = "idle"
          /\ meter' = meter
          /\ <<requests_this_month, cost_this_month, usage_file>>' =
                <<requests_this_month, cost_this_month, usage_file>>]_vars

\* A search was rejected once the request ceiling was reached, after calls
\* that were counted and saved.
C15_Witness ==
    /\ program = "app"
    /\ response = Resp(400, "BUDGET_EXCEEDED")
    /\ config.max_requests_per_month > 0
    /\ requests_this_month >= config.max_requests_per_month
    /\ usage_file.kind = "json"
    /\ meter.places > 0


\* The share of a limit in percent, as a fraction; a limit of 0 gives 0.
Share(used, limit) ==
    IF limit > 0 THEN [num |-> 100 * used, den |-> limit] ELSE [num |-> 0, den |-> 1]

FracGeq(p, q) == p.num * q.den >= q.num * p.den

\* C16: get_usage_percentage of app.py is the larger of
\* requests_this_month / max_requests_per_month * 100 and
\* cost_this_month / max_cost_per_month * 100 for all counter values (at least
\* both, and equal to one of them), above 100 when over budget, a limit of 0
\* contributing 0.
C16_PercentageIsMax ==
    (program = "app" /\ ~CounterRaises) =>
        LET p == app_get_usage_percentage(requests_this_month, cost_this_month)
            r == Share(requests_this_month, config.max_requests_per_month)
            c == Share(cost_this_month, config.max_cost_per_month)
        IN  /\ p.den > 0
            /\ FracGeq(p, r) /\ FracGeq(p, c)
            /\ (FracGeq(r, p) \/ FracGeq(c, p))

\* GET /api/usage has reported 150.0 % on the cost side while the requests
\* stand at a third of their limit.
C16_Witness ==
    /\ response.code = "USAGE"
    /\ response.budget_used = 1500
    /\ config = Cfg(3, 20, 10)
    /\ requests_this_month = 1
    /\ cost_this_month = 30


\* Whether the integer n is the fraction p truncated.
Truncated(n, p) == n * p.den <= p.num /\ p.num < (n + 1) * p.den

\* C17: percent_used in the snapshot of get_current_usage (usage_tracker.py)
\* is the larger of requests / max_requests_per_month * 100 and
\* cost / max_cost_per_month * 100, as the integer the snapshot holds: a period
\* whose cost share exceeds its request share reports the cost share.
C17_PercentIsMax ==
    db_ret.op = "get_current_usage" =>
        LET u == db_ret.usage
            r == Share(u.requests, u.max_requests)
            c == Share(u.cost, u.max_cost)
        IN  Truncated(u.percent_used, IF FracGeq(r, c) THEN r ELSE c)

\* C17, amended: percent_used is the request share alone,
\* requests / max_requests_per_month * 100 truncated to an integer, and 0 when
\* max_requests_per_month is 0; the cost does not enter.
C17_PercentIsRequestShare ==
    db_ret.op = "get_current_usage" =>
        LET u == db_ret.usage
        IN  Truncated(u.percent_used, Share(u.requests, u.max_requests))

\* A snapshot reports 33 percent for one request of three while the cost
\* stands at half its limit.
C17_Witness ==
    /\ db_ret.op = "get_current_usage"
    /\ db_ret.usage.max_requests = 3
    /\ db_ret.usage.requests = 1
    /\ db_ret.usage.cost = 10
    /\ db_ret.usage.max_cost = 20
    /\ db_ret.usage.percent_used = 33


\* Whether the month a comes after the month b in the calendar.
MoreRecent(a, b) == a.year * 12 + a.month > b.year * 12 + b.month

\* C18: get_monthly_history(limit) of usage_tracker.py returns at most limit
\* summaries, one for each of the most recent stored months, ordered strictly
\* from the most recent (year, month) to the oldest, each with its month's
\* requests and its cost (in whole cents), and changes no stored state.
C18_HistoryNewestFirst ==
    [][\A months \in HistoryLimits :
          (db_ret'.op = "get_monthly_history" /\ get_monthly_history(months)) =>
              LET history == db_ret'.history
                  Listed(row) == \E i \in 1..Len(history) : history[i].month = RowKey(row)
              IN  /\ Len(history) = Min(months, Len(monthly_usage))
                  /\ \A i \in 1..Len(history) :
                        \E j \in 1..Len(monthly_usage) :
                           /\ history[i].month = RowKey(monthly_usage[j])
                           /\ history[i].requests = monthly_usage[j].requests
                           /\ history[i].cost = Round2(monthly_usage[j].cost)
                  /\ \A i \in 1..(Len(history) - 1) :
                        MoreRecent(history[i].month, history[i + 1].month)
                  /\ \A j \in 1..Len(monthly_usage) :
                        ~Listed(monthly_usage[j]) =>
                            \A i \in 1..Len(history) :
                               MoreRecent(history[i].month, RowKey(monthly_usage[j]))
                  /\ monthly_usage' = monthly_usage
                  /\ request_log' = request_log]_vars

\* The history was asked with limit 1 while two months are stored, and holds
\* the newer one, whose cost of 0.018 reads 0.02.
C18_Witness ==
    /\ db_ret.op = "get_monthly_history"
    /\ Len(monthly_usage) = 2
    /\ Len(db_ret.history) = 1
    /\ db_ret.history[1].month = MonthKey(FirstMonth + 1)
    /\ db_ret.history[1].requests = 2
    /\ db_ret.history[1].cost = 20
    /\ monthly_usage[2].cost = 18


\* C19: get_detailed_log(limit) of usage_tracker.py returns at most limit
\* entries, the most recently appended first and the oldest last, also when
\* several entries carry the same timestamp, and changes no stored state.
C19_LogNewestFirst ==
    [][\A limit \in LogLimits, ties \in TieOrders :
          get_detailed_log(limit, ties) =>
              LET log == db_ret'.log
                  n == Len(request_log)
              IN  /\ Len(log) = Min(limit, n)
                  /\ \A i \in 1..Len(log) : log[i] = LogDict(request_log[n + 1 - i])
                  /\ monthly_usage' = monthly_usage
                  /\ request_log' = request_log]_vars


\* The steps that run _ensure_month_exists.
EnsureStep ==
    \/ \E call \in ReadCalls : ut_read_begin(call)
    \/ \E success \in BOOLEAN : ut_log_request_begin(success)

RowsOf(table, key) == {i \in 1..Len(table) : RowKey(table[i]) = key}

\* C20: in usage_tracker.py no two monthly_usage rows share a (year, month);
\* every _ensure_month_exists, from either of two interleaved callers, leaves
\* the table as it was when the month has its row and adds one row with zero
\* counters when it has none, after which the month has exactly one row; and
\* no step removes a row or changes its month.
C20_OneRowPerMonth ==
    /\ [](\A t \in Months : Cardinality(RowsOf(monthly_usage, MonthKey(t))) <= 1)
    /\ [][EnsureStep =>
             /\ Cardinality(RowsOf(monthly_usage', MonthKey(now))) = 1
             /\ IF RowsOf(monthly_usage, MonthKey(now)) # {}
                THEN monthly_usage' = monthly_usage
                ELSE monthly_usage' = Append(monthly_usage,
                                             [year |-> MonthKey(now).year,
                                              month |-> MonthKey(now).month,
                                              requests |-> 0, cost |-> 0])]_vars
    /\ [][\A i \in 1..Len(monthly_usage) :
             /\ Len(monthly_usage') >= i
             /\ RowKey(monthly_usage'[i]) = RowKey(monthly_usage[i])]_vars

\* Two callers are both past their _ensure_month_exists for a month that
\* holds one row with a counted request.
C20_Witness ==
    /\ db_pc = "usage_read"
    /\ db_peer.pc = "log_key"
    /\ Cardinality(RowsOf(monthly_usage, MonthKey(now))) = 1
    /\ \E i \in RowsOf(monthly_usage, MonthKey(now)) : monthly_usage[i].requests = 1


\* The step keeps every monthly_usage row in its place, under its month.
NoRowDeleted ==
    \A i \in 1..Len(monthly_usage) :
        /\ Len(monthly_usage') >= i
        /\ RowKey(monthly_usage'[i]) = RowKey(monthly_usage[i])

\* C21: across every operation of usage_tracker.py no monthly_usage row is
\* deleted, and only the row of the current wall-clock month has its requests
\* or cost changed.
C21_OnlyCurrentRowChanges ==
    [][/\ NoRowDeleted
       /\ \A i \in 1..Len(monthly_usage) :
             RowKey(monthly_usage[i]) # MonthKey(now) =>
                 monthly_usage'[i] = monthly_usage[i]]_vars

\* C21, amended: no monthly_usage row is deleted; a row's requests or cost
\* change only in log_request, which adds 1 and cost_per_request to the row of
\* the month it read from the clock, and in reset_month(year, month), which
\* sets the row it names to zero, of whatever period.
C21_RowsChangeByLogOrReset ==
    [][/\ NoRowDeleted
       /\ \A i \in 1..Len(monthly_usage) :
             \/ monthly_usage'[i] = monthly_usage[i]
             \/ /\ ut_log_request_write
                /\ RowKey(monthly_usage[i]) = db_local.key
                /\ monthly_usage'[i].requests = monthly_usage[i].requests + 1
                /\ monthly_usage'[i].cost = monthly_usage[i].cost + config.cost_per_request
             \/ /\ \E t \in Months : ut_reset_month(MonthKey(t)) /\ RowKey(monthly_usage[i]) = MonthKey(t)
                /\ monthly_usage'[i].requests = 0
                /\ monthly_usage'[i].cost = 0]_vars

\* reset_month has zeroed the row of last month, in which a request had been
\* counted, while this month's row holds a counted request.
C21_Witness ==
    /\ db_ret.op = "reset_month"
    /\ now = FirstMonth + 1
    /\ LoggedIn(MonthKey(FirstMonth))
    /\ Stored(MonthKey(FirstMonth)).found
    /\ Stored(MonthKey(FirstMonth)).requests = 0
    /\ Stored(MonthKey(now)).requests = 1


\* The step lowers neither counter of the monthly_usage row i.
RowNotLowered(i) ==
    /\ Len(monthly_usage') >= i
    /\ RowKey(monthly_usage'[i]) = RowKey(monthly_usage[i])
    /\ monthly_usage'[i].requests >= monthly_usage[i].requests
    /\ monthly_usage'[i].cost >= monthly_usage[i].cost

\* The step lowers neither counter of the app.py tracker.
CountersNotLowered ==
    /\ requests_this_month' >= requests_this_month
    /\ cost_this_month' >= cost_this_month

\* C22: the counters are monotonic: no operation of usage_tracker.py lowers
\* the requests or the cost of any month's row, and within one month no
\* operation of app.py (load_usage at a restart included) lowers
\* requests_this_month or cost_this_month.
C22_CountersMonotonic ==
    [][/\ \A i \in 1..Len(monthly_usage) : RowNotLowered(i)
       /\ (program = "app" /\ now' = now /\ SameMonthAsFile) => CountersNotLowered]_vars

\* C22, amended: in usage_tracker.py the requests and cost of a month's row
\* are lowered by reset_month alone, which sets the row it names to zero; in
\* app.py the counters are lowered only by load_usage at a restart, when a
\* save failed since the last construction or the file is of another month.
C22_LoweredByResetOrReload ==
    [][/\ \A i \in 1..Len(monthly_usage) :
             \/ RowNotLowered(i)
             \/ /\ \E t \in Months : ut_reset_month(MonthKey(t)) /\ RowKey(monthly_usage[i]) = MonthKey(t)
                /\ monthly_usage'[i] = [monthly_usage[i] EXCEPT !.requests = 0, !.cost = 0]
       /\ program = "app" =>
             \/ CountersNotLowered
             \/ Restart /\ (save_error \/ ~SameMonthAsFile)]_vars

\* In one month a request was counted, reset_month took the row back to
\* zero, and a second request was counted from there.
C22_Witness ==
    /\ now = FirstMonth
    /\ db_ret.op = "log_request"
    /\ Len(request_log) = 2
    /\ \A i \in 1..2 : request_log[i].status # "blocked"
    /\ Stored(MonthKey(now)).requests = 1


\* The request_log entries appended in a month.
EntriesOf(key) == {i \in 1..Len(request_log) : MonthKey(request_log[i].timestamp) = key}

RECURSIVE CostOf(_)
CostOf(entries) ==
    IF entries = {}
    THEN 0
    ELSE LET i == CHOOSE j \in entries : TRUE
         IN  request_log[i].cost + CostOf(entries \ {i})

\* C23: in every state of usage_tracker.py and for every month, the stored
\* cost is the sum of the cost fields of the request_log entries appended in
\* that month, and the stored requests is the number of those entries whose
\* status is not "blocked".
C23_RowMatchesLog ==
    program = "usage_tracker" =>
        \A t \in Months :
            /\ Stored(MonthKey(t)).cost = CostOf(EntriesOf(MonthKey(t)))
            /\ Stored(MonthKey(t)).requests =
                  Cardinality({i \in EntriesOf(MonthKey(t)) : request_log[i].status # "blocked"})


\* The steps in which log_request or log_failed_request writes.
LogStep ==
    \/ ut_log_request_write
    \/ \E reason \in {"budget"} : ut_log_failed_request(reason)

\* C24: the request log of usage_tracker.py is append-only: every operation
\* leaves the entries already appended unchanged and in place; log_request and
\* log_failed_request each add exactly one entry, and no other operation adds
\* or removes any.
C24_LogAppendOnly ==
    [][/\ request_log' = request_log \/ LogStep
       /\ LogStep =>
             /\ Len(request_log') = Len(request_log) + 1
             /\ SubSeq(request_log', 1, Len(request_log)) = request_log]_vars

\* reset_month has zeroed a month and the log still holds the month's two
\* entries, a counted one and a blocked one, in the order they were appended.
C24_Witness ==
    /\ db_ret.op = "reset_month"
    /\ Len(request_log) = 2
    /\ request_log[1].status = "success"
    /\ request_log[2].status = "blocked"
    /\ request_log[1].second < request_log[2].second
    /\ Stored(MonthKey(request_log[1].timestamp)).found
    /\ Stored(MonthKey(request_log[1].timestamp)).requests = 0


\* C25: with one request handled at a time and any max_pages in 1..3, the
\* monthly budget of app.py is enforced: requests_this_month never exceeds
\* max_requests_per_month, and cost_this_month exceeds max_cost_per_month by
\* no more than the last admitted call.
C25_BudgetEnforced ==
    (program = "app" /\ ~CounterRaises) =>
        /\ requests_this_month <= config.max_requests_per_month
        /\ cost_this_month <= config.max_cost_per_month + config.cost_per_request


\* A step that issues one Places page request.
PageRequest == meter'.places = meter.places + 1

OkPage(outcome) == outcome \in {"OK_MORE", "OK_LAST"}

\* C26: the pagination loop runs with max_pages in 1..3 whatever the client
\* sent, every page request is issued with fewer than max_pages pages
\* fetched and either ends the loop or raises the page count by one (so a
\* search issues at most max_pages page requests), and the returned
\* pages_fetched is at most max_pages and counts the pages answered OK.
C26_LoopBounded ==
    [][/\ (program = "app" /\ pc' # "idle") => search'.max_pages \in 1..3
       /\ PageRequest =>
            /\ pc = "page"
            /\ search.page_count < search.max_pages
            /\ search.page_count = Len(search.all_results)
            /\ pc' = "page" =>
                 /\ search'.max_pages = search.max_pages
                 /\ search'.page_count = search.page_count + 1
            /\ pc' # "page" => pc' = "idle"
            /\ \A outcome \in PageOutcomes, write \in WriteOutcomes :
                 (places_page(outcome, write) /\ response'.status = 200) =>
                     /\ response'.pages_fetched <= search.max_pages
                     /\ response'.pages_fetched =
                            search.page_count + (IF OkPage(outcome) THEN 1 ELSE 0)
                     /\ response'.pages_fetched = Len(response'.results)
      ]_vars

C26_Witness ==
    /\ program = "app"
    /\ pc = "idle"
    /\ meter = [geocode |-> 1, places |-> 3]
    /\ response.status = 200
    /\ response.pages_fetched = 3


\* The places of pages 1..n in page order (a page is modelled by its number).
RECURSIVE PlacesOfPages(_)
PlacesOfPages(n) == IF n = 0 THEN <<>> ELSE Append(PlacesOfPages(n - 1), n)

\* C27: a non-OK API status on the first page yields an error result with
\* no places; on a later page it yields a normal result holding exactly the
\* places of the earlier OK pages in page order; either way the failing page
\* request has been counted once by add_request.
C27_NonOkStatus ==
    [][PageRequest =>
         \A write \in WriteOutcomes :
             places_page("ZERO_RESULTS", write) =>
                 /\ pc' = "idle"
                 /\ requests_this_month' = requests_this_month + 1
                 /\ cost_this_month' = cost_this_month + config.cost_per_request
                 /\ search.page_count = 0 =>
                      /\ response'.status = 400
                      /\ response'.code = "ZERO_RESULTS"
                      /\ "results" \notin DOMAIN response'
                 /\ search.page_count > 0 =>
                      /\ response'.status = 200
                      /\ response'.pages_fetched = search.page_count
                      /\ response'.results = PlacesOfPages(search.page_count)
                      /\ response'.requests = requests_this_month + 1
      ]_vars

C27_Witness ==
    /\ program = "app"
    /\ pc = "idle"
    /\ meter = [geocode |-> 1, places |-> 3]
    /\ response.status = 200
    /\ response.pages_fetched = 2
    /\ response.results = <<1, 2>>
    /\ attempts.n = 3


AllReturned == adders # NoAdders /\ \A t \in DOMAIN adders : adders[t].pc = "done"

\* C28: when add_request calls on the shared tracker run concurrently,
\* interleaved at read counter / write counter / write file, then once all
\* of them have returned requests_this_month has grown by the number of
\* calls and the file holds that same count.
C28_NoLostUpdate ==
    (AllReturned /\ ~save_error) =>
        /\ requests_this_month = Len(adders)
        /\ usage_file.kind = "json"
        /\ usage_file.requests = requests_this_month


\* Row i of monthly_usage is the one this step counts a call in.
CountedIn(i) ==
    /\ monthly_usage'[i].requests = monthly_usage[i].requests + 1
    /\ monthly_usage'[i].cost = monthly_usage[i].cost + config.cost_per_request

\* C29: every log_request call adds 1 to the requests and cost_per_request to
\* the cost of exactly one monthly_usage row, also when the month changes
\* between its _ensure_month_exists and its reading of the (year, month)
\* key: no call is logged in request_log without being counted in a period.
C29_LoggedCallCounted ==
    [][(Len(request_log') = Len(request_log) + 1 /\ ut_log_request_write) =>
          /\ Len(monthly_usage') = Len(monthly_usage)
          /\ \E i \in 1..Len(monthly_usage) :
                /\ CountedIn(i)
                /\ \A j \in 1..Len(monthly_usage) :
                      j # i => monthly_usage'[j] = monthly_usage[j]
      ]_vars

=============================================================================
